---- MODULE Spec2Model ----
(***************************************************************************)
(* Workflow orchestration of market-agent: the Orchestrator state machine  *)
(* (core/orchestrator.py), the WorkflowContext (core/state.py), the draft  *)
(* and report storage (storage/storage.py) and the agents' run methods.    *)
(***************************************************************************)
EXTENDS Integers, Sequences, FiniteSets, TLC

(* ------------------------------ bounds -------------------------------- *)
\* number of WorkflowContext objects (uuid4 ids) created in one behaviour
MaxRuns == 1
\* calendar days after the first one (datetime.date.today() is 0..MaxDay)
MaxDay == 1
\* run_single_agent calls that are given a previously used context
MaxReuse == 1

\* method calls made on one WorkflowContext object by the code that holds it
MaxMethodCalls == 3

\* callers (threads or processes) that use one state directory at a time
MaxCallers == 2
\* WorkflowContext objects created by concurrent callers in one behaviour
MaxParRuns == 2

Ids == 1..MaxRuns
Days == 0..MaxDay
Callers == 1..MaxCallers
ParIds == 1..MaxParRuns

(* --------------------------- python values ---------------------------- *)
\* A python value: None, a str, or the dict an agent returns (the shape is
\* the key that carries the text: "draft", "analysis", "summary", ...).
NoneText == "<None>"
NoneV == [shape |-> "none", text |-> NoneText, meta |-> ""]
Str(t) == [shape |-> "str", text |-> t, meta |-> ""]
Dict(key, t, m) == [shape |-> key, text |-> t, meta |-> m]
\* the python value of a text that may be None
TextVal(t) == IF t = NoneText THEN NoneV ELSE Str(t)
\* python truthiness: None and "" are falsy, a non-empty dict is truthy
Truthy(v) == /\ v.shape # "none"
             /\ ~(v.shape = "str" /\ v.text = "")
\* dict.get(key, str(dict)) on an agent output that is a dict
DictGet(v, key) == IF v.shape = key THEN TextVal(v.text) ELSE Str("repr")

\* response.text of the model service for agent a: empty or a text (an empty
\* analysis takes the path of a non-empty one everywhere, so only the report
\* and the draft are tried empty)
ResponseTexts(a) == IF a = "deep_analysis_agent" THEN {"txt"} ELSE {"", "txt"}

NoError == "<None>"
NoAgent == "<None>"
ErrModel == "model service error"
ErrCollect == "onchain: collector error"
ErrNoReport == "No report found in context. ReportAgent must run first."
ErrRejected == "Rejected by user"

EmptyMap == [k \in {} |-> NoneV]
Put(f, k, v) == [x \in (DOMAIN f) \cup {k} |-> IF x = k THEN v ELSE f[x]]
Remove(f, k) == [x \in (DOMAIN f) \ {k} |-> f[x]]
Get(f, k) == IF k \in DOMAIN f THEN f[k] ELSE NoneV

(* ------------------------------ state.py ------------------------------ *)
PENDING == "WorkflowStatus.PENDING"
RUNNING == "WorkflowStatus.RUNNING"
WAITING_APPROVAL == "WorkflowStatus.WAITING_APPROVAL"
COMPLETED == "WorkflowStatus.COMPLETED"
FAILED == "WorkflowStatus.FAILED"
REJECTED == "WorkflowStatus.REJECTED"
WorkflowStatus == {PENDING, RUNNING, WAITING_APPROVAL, COMPLETED, FAILED, REJECTED}

\* WorkflowStatus.value and WorkflowStatus(value)
StatusValue(s) ==
    CASE s = PENDING -> "pending"
      [] s = RUNNING -> "running"
      [] s = WAITING_APPROVAL -> "waiting_approval"
      [] s = COMPLETED -> "completed"
      [] s = FAILED -> "failed"
      [] s = REJECTED -> "rejected"
StatusOfValue(v) == CHOOSE s \in WorkflowStatus : StatusValue(s) = v

AgentResult(name, success, output, error) ==
    [agent_name |-> name, success |-> success, output |-> output, error |-> error]
NoResult == AgentResult(NoAgent, FALSE, NoneV, NoError)

ApprovalRequest(agent, content, ctype, msg) ==
    [agent_name |-> agent, content |-> content, content_type |-> ctype, message |-> msg]
\* pending_approval = None
NoApproval == ApprovalRequest(NoAgent, NoneV, "", "")

\* WorkflowContext(workflow_id=id, workflow_name=name) built when utcnow() is
\* now: the dataclass defaults (the timestamp of an AgentResult and of an
\* ApprovalRequest are written once and read by no operation; they are left out)
WorkflowContext(id, name, now) ==
    [workflow_id |-> id, workflow_name |-> name, created_at |-> now,
     updated_at |-> now, status |-> PENDING,
     current_agent |-> NoAgent, data |-> EmptyMap, agent_results |-> <<>>,
     pending_approval |-> NoApproval, error |-> NoError]

add_result(c, r, now) ==
    [c EXCEPT !.agent_results = Append(@, r),
              !.data = IF r.output # NoneV THEN Put(@, r.agent_name, r.output) ELSE @,
              !.updated_at = now]

set_pending_approval(c, req, now) ==
    [c EXCEPT !.pending_approval = req, !.status = WAITING_APPROVAL,
              !.updated_at = now]

clear_approval(c, now) ==
    [c EXCEPT !.pending_approval = NoApproval, !.updated_at = now]

\* the JSON document: the status is stored as its string value
to_dict(c) == [c EXCEPT !.status = StatusValue(c.status)]
\* the status is left as the string of the document
from_dict_keeps_value(d) == d
from_dict(d) == [d EXCEPT !.status = StatusOfValue(d.status)]

\* WorkflowContext.save / load on the state directory st
\* the document is written to the file of every id
save_every_file(st, c) == [x \in (DOMAIN st) \cup {c.workflow_id} |-> to_dict(c)]
\* the document is written without the error of the context
save_without_error(st, c) == Put(st, c.workflow_id, [to_dict(c) EXCEPT !.error = NoError])
save(st, c) == Put(st, c.workflow_id, to_dict(c))
Persisted(st, id) == id \in DOMAIN st
load(st, id) == from_dict(st[id])

(* ----------------------------- storage.py ----------------------------- *)
\* draft_{workflow_id}_{date.today()}.txt: the file name is the pair
DraftFile(id, day) == <<id, day>>
\* f.write(content) raises TypeError unless content is a str
Writable(v) == v.shape = "str"
save_pending_draft(dir, v, id, day) == Put(dir, DraftFile(id, day), v.text)
save_approved_draft(dir, v, id, day) == Put(dir, DraftFile(id, day), v.text)
load_pending_draft(dir, id, day) ==
    IF DraftFile(id, day) \in DOMAIN dir THEN Str(dir[DraftFile(id, day)]) ELSE NoneV
\* the file is left in place
delete_pending_draft_keeps(dir, id, day) == dir
delete_pending_draft(dir, id, day) == Remove(dir, DraftFile(id, day))

(* ------------------------------- agents ------------------------------- *)
DataCollection == "data_collection_agent"
Report == "report_agent"
DeepAnalysis == "deep_analysis_agent"
Social == "social_agent"
Monitor == "monitor_agent"
FundFlow == "fundflow_agent"
Onchain == "onchain_agent"

\* Orchestrator._agents after create_orchestrator()
RegisteredAgents == {Report, DeepAnalysis, Social, Monitor, FundFlow, Onchain}
\* names a caller asks run_single_agent for (fundflow_agent behaves as
\* monitor_agent does; data_collection_agent is not registered)
AgentNames == {Report, DeepAnalysis, Social, Monitor, Onchain, DataCollection}

\* names a caller asks run_single_agent for with a used context
HeldAgentNames == {Report, Onchain, DataCollection}

\* the class attribute requires_approval
requires_approval(a) == a = Social

\* Orchestrator._workflows: "daily" as DailyWorkflow.create_agents builds it,
\* a registration whose approval agent is not the last one, and one without
\* an approval agent
Workflows ==
    [daily |-> <<DataCollection, Report, DeepAnalysis, Social>>,
     draft_first |-> <<Report, Social, DeepAnalysis>>,
     research |-> <<Report, DeepAnalysis>>]
\* names a caller may ask run_workflow for
WorkflowNames == {"daily", "draft_first", "research", "weekly"}

\* what one call of agent.run(context) can do: return a result (leaving
\* context.data as data) or raise
Returned(r, d) == [raised |-> FALSE, result |-> r, data |-> d]
Raised(d) == [raised |-> TRUE, result |-> NoResult, data |-> d]
Ok(a, out) == AgentResult(a, TRUE, out, NoError)
Fail(a, err) == AgentResult(a, FALSE, NoneV, err)

\* no check of the report
get_prompt_unchecked(a, data) == NoError

\* get_prompt: the message of the ValueError it raises, or NoError
get_prompt(a, data) ==
    IF a \in {DeepAnalysis, Social} /\ ~Truthy(Get(data, Report))
    THEN ErrNoReport ELSE NoError

process_response(a, text, data) ==
    CASE a = DeepAnalysis -> Dict("analysis", text, "auto-extracted")
      [] a = Social -> Dict("draft", text,
                            IF DeepAnalysis \in DOMAIN data THEN "based_on_analysis" ELSE "")
      [] OTHER -> TextVal(text)

\* BaseAgent.run: every exception of the try block becomes a failed result
BaseAgent_run(a, data) ==
    IF get_prompt(a, data) # NoError
    THEN {Returned(Fail(a, get_prompt(a, data)), data)}
    ELSE {Returned(Fail(a, ErrModel), data)}
         \cup {Returned(Ok(a, process_response(a, t, data)), data) : t \in ResponseTexts(a)}

\* MonitorAgent.run / FundFlowAgent.run: collect, put the collected data
\* into context.data, call the model, save the analysis; one try block
Collecting_run(a, key, data) ==
    LET collected == Put(data, key, Dict("collected", "posts", ""))
    IN  {Returned(Ok(a, Dict("message", "nothing collected", "")), data),
         Returned(Fail(a, ErrModel), collected),
         Returned(Ok(a, Dict("analysis", "txt", "filepath")), collected)}

\* OnchainAgent.run(context, quick=False): no try block around the collector
\* and the file writes; _generate_analysis turns a model error into a text
Onchain_run(data) ==
    {Raised(data)}
    \cup {Returned(AgentResult(Onchain, TRUE, Str("txt"), NoError), data),
          Returned(AgentResult(Onchain, TRUE, Str("Error generating analysis"), ErrCollect), data)}

\* DataCollectionAgent.run: success iff no collector raised; the output
\* dict is built in both cases
DataCollection_run(data) ==
    {Returned(AgentResult(DataCollection, TRUE, Dict("summary", "collected", ""), NoError), data),
     Returned(AgentResult(DataCollection, FALSE, Dict("summary", "collected", "errors"), ErrCollect), data)}

AgentRun(a, data) ==
    CASE a = DataCollection -> DataCollection_run(data)
      [] a = Monitor -> Collecting_run(a, "collected_posts", data)
      [] a = FundFlow -> Collecting_run(a, "fund_flow_data", data)
      [] a = Onchain -> Onchain_run(data)
      [] OTHER -> BaseAgent_run(a, data)

(* ------------------------------- state -------------------------------- *)
VARIABLES
    store,        \* workflow_state_dir: workflow_id -> persisted JSON document
    mem,          \* the WorkflowContext object of each id held by the caller
    pendingDir,   \* pending_approval_dir: draft file -> text
    approvedDir,  \* approved_drafts_dir: draft file -> text
    outDir,       \* local_output_dir: report / analysis file -> text
    today,        \* datetime.date.today()
    nextId,       \* the next fresh workflow_id
    reuses,       \* run_single_agent calls given a used context so far
    op,           \* the run_workflow call in progress and its position
    last,         \* the call that ended last and how it ended
    executed,     \* per workflow_id, the agents whose run was called
    clock,        \* datetime.utcnow(): the value the next reading returns
    calls         \* the calls of concurrent callers that are in progress

vars == <<store, mem, pendingDir, approvedDir, outDir, today, nextId, reuses,
          op, last, executed, clock, calls>>

Idle == [kind |-> "idle", id |-> 0, pc |-> "", agents |-> <<>>, i |-> 0, result |-> NoResult]
Call(kind, id, outcome, arg) == [kind |-> kind, id |-> id, outcome |-> outcome, arg |-> arg]

\* a call that raised ValueError to its caller
CallerError == Call("any", 0, "ValueError", "")

Init ==
    /\ store = EmptyMap
    /\ mem = EmptyMap
    /\ pendingDir = EmptyMap
    /\ approvedDir = EmptyMap
    /\ outDir = EmptyMap
    /\ today = 0
    /\ nextId = 1
    /\ reuses = 0
    /\ op = Idle
    /\ last = Call("none", 0, "none", "")
    /\ executed = [id \in Ids |-> <<>>]
    /\ clock = 0
    /\ calls = EmptyMap

\* the calendar date changes (between two calls)
Tick ==
    /\ op = Idle
    /\ today < MaxDay
    /\ today' = today + 1
    /\ UNCHANGED <<store, mem, pendingDir, approvedDir, outDir, nextId, reuses,
                   op, last, executed, clock, calls>>

(* --------------------------- run_workflow ----------------------------- *)
\* agents = [a for a in agents if a.name != "deep_analysis_agent"]
FilterAgents(agents, skip_analysis) ==
    IF skip_analysis THEN SelectSeq(agents, LAMBDA a : a # DeepAnalysis) ELSE agents

\* lines 69-86: the name check, the fresh context, the agent list
RunWorkflow(workflow_name, skip_analysis) ==
    /\ op = Idle
    /\ IF workflow_name \notin DOMAIN Workflows
       THEN /\ last' = CallerError
            /\ UNCHANGED <<store, mem, pendingDir, approvedDir, outDir, today,
                           nextId, reuses, op, executed, clock>>
       ELSE /\ nextId <= MaxRuns
            /\ mem' = Put(mem, nextId,
                          [WorkflowContext(nextId, workflow_name, clock)
                              EXCEPT !.status = RUNNING])
            /\ clock' = clock + 1
            /\ op' = [kind |-> "run_workflow", id |-> nextId, pc |-> "loop",
                      agents |-> FilterAgents(Workflows[workflow_name], skip_analysis),
                      i |-> 1, result |-> NoResult]
            /\ nextId' = nextId + 1
            /\ last' = Call("run_workflow", nextId, "running", "")
            /\ UNCHANGED <<store, pendingDir, approvedDir, outDir, today, reuses,
                           executed>>
    /\ UNCHANGED calls

\* a checkpoint that saves the context before it names the agent
WfCheckpoint_saves_first ==
    /\ op.kind = "run_workflow" /\ op.pc = "loop" /\ op.i <= Len(op.agents)
    /\ LET ctx == [mem[op.id] EXCEPT !.current_agent = op.agents[op.i]]
       IN  /\ mem' = Put(mem, op.id, ctx)
           /\ store' = save(store, mem[op.id])
    /\ op' = [op EXCEPT !.pc = "run"]
    /\ UNCHANGED <<pendingDir, approvedDir, outDir, today, nextId, reuses, last,
                   executed, clock, calls>>

\* a checkpoint that saves only before the first agent
WfCheckpoint_first_only ==
    /\ op.kind = "run_workflow" /\ op.pc = "loop" /\ op.i <= Len(op.agents)
    /\ LET ctx == [mem[op.id] EXCEPT !.current_agent = op.agents[op.i]]
       IN  /\ mem' = Put(mem, op.id, ctx)
           /\ store' = IF op.i = 1 THEN save(store, ctx) ELSE store
    /\ op' = [op EXCEPT !.pc = "run"]
    /\ UNCHANGED <<pendingDir, approvedDir, outDir, today, nextId, reuses, last,
                   executed, clock, calls>>

\* lines 90-91: context.current_agent = agent.name; context.save(...)
WfCheckpoint ==
    /\ op.kind = "run_workflow" /\ op.pc = "loop" /\ op.i <= Len(op.agents)
    /\ LET ctx == [mem[op.id] EXCEPT !.current_agent = op.agents[op.i]]
       IN  /\ mem' = Put(mem, op.id, ctx)
           /\ store' = save(store, ctx)
    /\ op' = [op EXCEPT !.pc = "run"]
    /\ UNCHANGED <<pendingDir, approvedDir, outDir, today, nextId, reuses, last,
                   executed, clock, calls>>

\* the loop goes on after an unsuccessful result
not_success_ignored(result) == FALSE

\* line 97: if not result.success
not_success(result) == ~result.success

\* lines 94-101: run the agent, record the result, stop on failure
WfRunAgent ==
    /\ op.kind = "run_workflow" /\ op.pc = "run"
    /\ \E o \in AgentRun(op.agents[op.i], mem[op.id].data) :
         /\ executed' = [executed EXCEPT ![op.id] = Append(@, op.agents[op.i])]
         /\ IF o.raised
            THEN /\ mem' = Remove(mem, op.id)
                 /\ op' = Idle
                 /\ last' = Call("run_workflow", op.id, "raised", "agent")
                 /\ UNCHANGED <<store, clock>>
            ELSE LET ctx == add_result([mem[op.id] EXCEPT !.data = o.data], o.result, clock)
                     failed == [ctx EXCEPT !.status = FAILED, !.error = o.result.error]
                 IN  /\ clock' = clock + 1
                     /\ IF not_success(o.result)
                        THEN /\ mem' = Put(mem, op.id, failed)
                             /\ store' = save(store, failed)
                             /\ op' = Idle
                             /\ last' = Call("run_workflow", op.id, "returned", "")
                        ELSE /\ mem' = Put(mem, op.id, ctx)
                             /\ op' = [op EXCEPT !.pc = "handoff", !.result = o.result]
                             /\ UNCHANGED <<store, last>>
    /\ UNCHANGED <<pendingDir, approvedDir, outDir, today, nextId, reuses, calls>>

\* the call ends with an exception that escapes run_workflow
WfEscape(why) ==
    /\ mem' = Remove(mem, op.id)
    /\ op' = Idle
    /\ last' = Call("run_workflow", op.id, "raised", why)

\* Storage._save_local: open(...).write(content); the write raises TypeError
\* when content is not a str and may raise OSError otherwise
SaveOutcomes(content) == IF Writable(content) THEN {"saved", "OSError"} ELSE {"TypeError"}

\* lines 104-108: save_report / save_analysis by agent name
WfHandOff ==
    /\ op.kind = "run_workflow" /\ op.pc = "handoff"
    /\ LET a == op.agents[op.i]
           content == IF a = Report THEN op.result.output
                      ELSE DictGet(op.result.output, "analysis")
       IN  IF a \in {Report, DeepAnalysis}
           THEN \E w \in SaveOutcomes(content) :
                  IF w = "saved"
                  THEN /\ outDir' = Put(outDir, <<a, today>>, content.text)
                       /\ op' = [op EXCEPT !.pc = "approval"]
                       /\ UNCHANGED <<mem, last>>
                  ELSE /\ WfEscape(w)
                       /\ UNCHANGED outDir
           ELSE /\ op' = [op EXCEPT !.pc = "approval"]
                /\ UNCHANGED <<outDir, mem, last>>
    /\ UNCHANGED <<store, pendingDir, approvedDir, today, nextId, reuses, executed,
                   clock, calls>>

\* lines 111-122: the approval gate; without it the loop goes on
WfApproval ==
    /\ op.kind = "run_workflow" /\ op.pc = "approval"
    /\ LET a == op.agents[op.i]
           draft_content == DictGet(op.result.output, "draft")
           ctx == set_pending_approval(mem[op.id],
                     ApprovalRequest(a, op.result.output, "tweet_draft",
                                     "Please review the tweet draft before publishing."),
                     clock)
       IN  IF requires_approval(a)
           THEN \E w \in SaveOutcomes(draft_content) :
                  IF w = "saved"
                  THEN /\ pendingDir' = save_pending_draft(pendingDir, draft_content, op.id, today)
                       /\ mem' = Put(mem, op.id, ctx)
                       /\ store' = save(store, ctx)
                       /\ op' = Idle
                       /\ last' = Call("run_workflow", op.id, "returned", "")
                       /\ clock' = clock + 1
                  ELSE /\ WfEscape(w)
                       /\ UNCHANGED <<pendingDir, store, clock>>
           ELSE /\ op' = [op EXCEPT !.pc = "loop", !.i = op.i + 1, !.result = NoResult]
                /\ UNCHANGED <<pendingDir, mem, store, last, clock>>
    /\ UNCHANGED <<approvedDir, outDir, today, nextId, reuses, executed, calls>>

\* a loop that may end before the last agent of the list
WfFinish_early ==
    /\ op.kind = "run_workflow" /\ op.pc = "loop"
    /\ LET ctx == [mem[op.id] EXCEPT !.status = COMPLETED, !.current_agent = NoAgent]
       IN  /\ mem' = Put(mem, op.id, ctx)
           /\ store' = save(store, ctx)
    /\ op' = Idle
    /\ last' = Call("run_workflow", op.id, "returned", "")
    /\ UNCHANGED <<pendingDir, approvedDir, outDir, today, nextId, reuses, executed,
                   clock, calls>>

\* lines 125-128: all agents done
WfFinish ==
    /\ op.kind = "run_workflow" /\ op.pc = "loop" /\ op.i > Len(op.agents)
    /\ LET ctx == [mem[op.id] EXCEPT !.status = COMPLETED, !.current_agent = NoAgent]
       IN  /\ mem' = Put(mem, op.id, ctx)
           /\ store' = save(store, ctx)
    /\ op' = Idle
    /\ last' = Call("run_workflow", op.id, "returned", "")
    /\ UNCHANGED <<pendingDir, approvedDir, outDir, today, nextId, reuses, executed,
                   clock, calls>>

(* -------------------------- run_single_agent -------------------------- *)
\* f"single_{agent_name}"
SingleName(a) ==
    CASE a = Report -> "single_report_agent"
      [] a = DeepAnalysis -> "single_deep_analysis_agent"
      [] a = Social -> "single_social_agent"
      [] a = Monitor -> "single_monitor_agent"
      [] a = FundFlow -> "single_fundflow_agent"
      [] a = Onchain -> "single_onchain_agent"
      [] OTHER -> "single_agent"

\* lines 149-171 on the context object context, utcnow() being now when the
\* result is recorded; kept says whether the caller still holds that object
\* when the call raises
SingleAgent(agent_name, context, kept, now) ==
    LET id == context.workflow_id
        started == [context EXCEPT !.status = RUNNING, !.current_agent = agent_name]
    IN  \E o \in AgentRun(agent_name, started.data) :
          /\ executed' = [executed EXCEPT ![id] = Append(@, agent_name)]
          /\ IF o.raised
             THEN /\ mem' = IF kept THEN Put(mem, id, [started EXCEPT !.data = o.data])
                                    ELSE Remove(mem, id)
                  /\ last' = Call("run_single_agent", id, "raised", "agent")
                  /\ clock' = now
                  /\ UNCHANGED store
             ELSE LET recorded == add_result([started EXCEPT !.data = o.data], o.result, now)
                      ended == IF o.result.success
                               THEN [recorded EXCEPT !.status = COMPLETED]
                               ELSE [recorded EXCEPT !.status = FAILED,
                                                     !.error = o.result.error]
                      ctx == [ended EXCEPT !.current_agent = NoAgent]
                  IN  /\ mem' = Put(mem, id, ctx)
                      /\ store' = save(store, ctx)
                      /\ last' = Call("run_single_agent", id, "returned", "")
                      /\ clock' = now + 1

\* run_single_agent(agent_name) and run_single_agent(agent_name, context=c)
\* with c a WorkflowContext() the caller made and seeded with a report, as
\* main.py does for the analysis and the social agent
RunSingleAgentFresh(agent_name, made_by_caller) ==
    /\ op = Idle
    /\ IF agent_name \notin RegisteredAgents
       THEN /\ last' = CallerError
            /\ UNCHANGED <<store, mem, nextId, executed, clock>>
       ELSE /\ nextId <= MaxRuns
            /\ made_by_caller => agent_name \in {DeepAnalysis, Social}
            /\ nextId' = nextId + 1
            /\ SingleAgent(agent_name,
                  IF made_by_caller
                  THEN [WorkflowContext(nextId, "", clock) EXCEPT
                           !.data = Put(@, Report, Str("txt"))]
                  ELSE WorkflowContext(nextId, SingleName(agent_name), clock),
                  made_by_caller, clock + 1)
    /\ UNCHANGED <<pendingDir, approvedDir, outDir, today, reuses, op, calls>>

\* run_single_agent(agent_name, context=c) with c a context object that an
\* earlier call worked on
RunSingleAgentHeld(agent_name, id) ==
    /\ op = Idle
    /\ id \in DOMAIN mem
    /\ reuses < MaxReuse
    /\ IF agent_name \notin RegisteredAgents
       THEN /\ last' = CallerError
            /\ UNCHANGED <<store, mem, reuses, executed, clock>>
       ELSE /\ reuses' = reuses + 1
            /\ SingleAgent(agent_name, mem[id], TRUE, clock)
    /\ UNCHANGED <<pendingDir, approvedDir, outDir, today, nextId, op, calls>>

(* -------------------------- approve / reject -------------------------- *)
\* the reasons a caller passes to reject: None, "" or a text
Reasons == {NoneText, "", "bad tone"}

\* lines 185-208
Approve(workflow_id) ==
    /\ op = Idle
    /\ IF ~Persisted(store, workflow_id)
       THEN /\ last' = CallerError
            /\ UNCHANGED <<store, mem, pendingDir, approvedDir, clock>>
       ELSE LET context == load(store, workflow_id)
                draft_content == load_pending_draft(pendingDir, workflow_id, today)
                ctx == [clear_approval(context, clock) EXCEPT !.status = COMPLETED]
            IN  IF context.status # WAITING_APPROVAL
                THEN /\ last' = CallerError
                     /\ UNCHANGED <<store, mem, pendingDir, approvedDir, clock>>
                ELSE IF context.pending_approval = NoApproval
                THEN /\ last' = CallerError
                     /\ UNCHANGED <<store, mem, pendingDir, approvedDir, clock>>
                ELSE \E w \in {"saved", "OSError"} :
                       IF Truthy(draft_content) /\ w = "OSError"
                       THEN /\ last' = Call("approve", workflow_id, "raised", w)
                            /\ UNCHANGED <<store, mem, pendingDir, approvedDir, clock>>
                       ELSE /\ IF Truthy(draft_content)
                               THEN /\ approvedDir' = save_approved_draft(approvedDir,
                                                         draft_content, workflow_id, today)
                                    /\ pendingDir' = delete_pending_draft(pendingDir,
                                                         workflow_id, today)
                               ELSE UNCHANGED <<approvedDir, pendingDir>>
                            /\ mem' = Put(mem, workflow_id, ctx)
                            /\ store' = save(store, ctx)
                            /\ last' = Call("approve", workflow_id, "returned", "")
                            /\ clock' = clock + 1
    /\ UNCHANGED <<outDir, today, nextId, reuses, op, executed, calls>>

\* reject that deletes the pending draft before it checks the status
Reject_deletes_first(workflow_id, reason) ==
    /\ op = Idle
    /\ IF ~Persisted(store, workflow_id)
       THEN /\ last' = CallerError
            /\ UNCHANGED <<store, mem, pendingDir, clock>>
       ELSE LET context == load(store, workflow_id)
                ctx == [clear_approval(context, clock) EXCEPT
                           !.status = REJECTED,
                           !.error = IF Truthy(TextVal(reason)) THEN reason ELSE ErrRejected]
            IN  /\ pendingDir' = delete_pending_draft(pendingDir, workflow_id, today)
                /\ IF context.status # WAITING_APPROVAL
                   THEN /\ last' = CallerError
                        /\ UNCHANGED <<store, mem, clock>>
                   ELSE /\ mem' = Put(mem, workflow_id, ctx)
                        /\ store' = save(store, ctx)
                        /\ last' = Call("reject", workflow_id, "returned", reason)
                        /\ clock' = clock + 1
    /\ UNCHANGED <<approvedDir, outDir, today, nextId, reuses, op, executed, calls>>

\* lines 223-239
Reject(workflow_id, reason) ==
    /\ op = Idle
    /\ IF ~Persisted(store, workflow_id)
       THEN /\ last' = CallerError
            /\ UNCHANGED <<store, mem, pendingDir, clock>>
       ELSE LET context == load(store, workflow_id)
                ctx == [clear_approval(context, clock) EXCEPT
                           !.status = REJECTED,
                           !.error = IF Truthy(TextVal(reason)) THEN reason ELSE ErrRejected]
            IN  IF context.status # WAITING_APPROVAL
                THEN /\ last' = CallerError
                     /\ UNCHANGED <<store, mem, pendingDir, clock>>
                ELSE /\ pendingDir' = delete_pending_draft(pendingDir, workflow_id, today)
                     /\ mem' = Put(mem, workflow_id, ctx)
                     /\ store' = save(store, ctx)
                     /\ last' = Call("reject", workflow_id, "returned", reason)
                     /\ clock' = clock + 1
    /\ UNCHANGED <<approvedDir, outDir, today, nextId, reuses, op, executed, calls>>

(* --------------------- get_status / list_workflows -------------------- *)
\* the None that WorkflowContext.load returns for a missing file
NoContext == [WorkflowContext(0, NoneText, 0) EXCEPT !.status = NoneText]

\* line 250: WorkflowContext.load(workflow_id, state_dir)
get_status(st, id) == IF Persisted(st, id) THEN load(st, id) ELSE NoContext

\* the orders os.listdir can give the files of the ids in S
Orders(S) == {o \in [1..Cardinality(S) -> S] : \A i, j \in DOMAIN o : i # j => o[i] # o[j]}

\* the documents sorted by created_at, oldest first
list_workflows_oldest_first(st) ==
    {[i \in DOMAIN o |-> to_dict(load(st, o[i]))] :
        o \in {l \in Orders(DOMAIN st) :
                 \A i, j \in DOMAIN l :
                    i < j => st[l[i]].created_at <= st[l[j]].created_at}}

\* lines 258-270: the documents of all files, sorted by created_at, newest
\* first; the sort is stable, so documents of equal created_at keep the order
\* of os.listdir: the set of the lists the call can return
list_workflows(st) ==
    {[i \in DOMAIN o |-> to_dict(load(st, o[i]))] :
        o \in {l \in Orders(DOMAIN st) :
                 \A i, j \in DOMAIN l :
                    i < j => st[l[i]].created_at >= st[l[j]].created_at}}

\* a read that writes the document back with a new updated_at
GetStatus_saves(workflow_id) ==
    /\ op = Idle
    /\ Persisted(store, workflow_id)
    /\ store' = save(store, [load(store, workflow_id) EXCEPT !.updated_at = clock])
    /\ last' = Call("get_status", workflow_id, "returned", "")
    /\ UNCHANGED <<mem, pendingDir, approvedDir, outDir, today, nextId, reuses,
                   op, executed, clock, calls>>

\* get_status(workflow_id) by the caller
GetStatus(workflow_id) ==
    /\ op = Idle
    /\ last' = Call("get_status", workflow_id,
                    IF get_status(store, workflow_id) = NoContext
                    THEN "not found" ELSE "returned", "")
    /\ UNCHANGED <<store, mem, pendingDir, approvedDir, outDir, today, nextId, reuses,
                   op, executed, clock, calls>>

\* list_workflows() by the caller
ListWorkflows ==
    /\ op = Idle
    /\ list_workflows(store) # {}
    /\ last' = Call("list_workflows", 0, "returned", "")
    /\ UNCHANGED <<store, mem, pendingDir, approvedDir, outDir, today, nextId, reuses,
                   op, executed, clock, calls>>

(* ---------------------------- specification --------------------------- *)
Next ==
    \/ Tick
    \/ \E n \in WorkflowNames, skip \in BOOLEAN : RunWorkflow(n, skip)
    \/ WfCheckpoint
    \/ WfRunAgent
    \/ WfHandOff
    \/ WfApproval
    \/ WfFinish
    \/ \E a \in AgentNames, c \in BOOLEAN : RunSingleAgentFresh(a, c)
    \/ \E a \in HeldAgentNames, id \in Ids : RunSingleAgentHeld(a, id)
    \/ \E id \in Ids : Approve(id)
    \/ \E id \in Ids, r \in Reasons : Reject(id, r)
    \/ \E id \in Ids : GetStatus(id)
    \/ ListWorkflows

Spec == Init /\ [][Next]_vars

(* ------------------- the WorkflowContext object alone ----------------- *)
\* the results and the requests passed to the methods of a context
ContextResults ==
    {Ok(Report, Str("txt")), Fail(Report, ErrModel), Ok(Social, Dict("draft", "txt", ""))}
ApprovalRequests ==
    {ApprovalRequest(Social, Dict("draft", t, ""), "tweet_draft",
                     "Please review the tweet draft before publishing.") :
        t \in {"txt", "edited"}}

\* context = WorkflowContext(workflow_name="daily")
InitContext ==
    /\ store = EmptyMap
    /\ mem = Put(EmptyMap, 1, WorkflowContext(1, "daily", 0))
    /\ pendingDir = EmptyMap
    /\ approvedDir = EmptyMap
    /\ outDir = EmptyMap
    /\ today = 0
    /\ nextId = 2
    /\ reuses = 0
    /\ op = Idle
    /\ last = Call("none", 0, "none", "")
    /\ executed = [id \in Ids |-> <<>>]
    /\ clock = 1
    /\ calls = EmptyMap

\* the return of a method of the context: it has read the clock
MethodReturns(name) ==
    /\ last' = Call(name, 1, "returned", "")
    /\ clock' = clock + 1
    /\ UNCHANGED <<store, pendingDir, approvedDir, outDir, today, nextId, reuses, op,
                   executed, calls>>

\* context.add_result(result)
CtxAddResult(result) ==
    /\ clock <= MaxMethodCalls
    /\ mem' = Put(mem, 1, add_result(mem[1], result, clock))
    /\ MethodReturns("add_result")

\* context.set_pending_approval(request)
CtxSetPendingApproval(request) ==
    /\ clock <= MaxMethodCalls
    /\ mem' = Put(mem, 1, set_pending_approval(mem[1], request, clock))
    /\ MethodReturns("set_pending_approval")

\* context.clear_approval()
CtxClearApproval ==
    /\ clock <= MaxMethodCalls
    /\ mem' = Put(mem, 1, clear_approval(mem[1], clock))
    /\ MethodReturns("clear_approval")

NextContext ==
    \/ \E r \in ContextResults : CtxAddResult(r)
    \/ \E q \in ApprovalRequests : CtxSetPendingApproval(q)
    \/ CtxClearApproval

SpecContext == InitContext /\ [][NextContext]_vars

(* ------------------------- concurrent callers ------------------------- *)
\* The calls of several callers on one state directory. A call is a frame of
\* local variables; a step of a call is the code between two accesses to the
\* state directory or to the draft directories. File writes succeed here,
\* every run_workflow call is made with skip_analysis=True, and the model
\* service fails or answers with a non-empty text.
Frame(kind, id, pc, ctx, agents, i, arg) ==
    [kind |-> kind, id |-> id, pc |-> pc, ctx |-> ctx, agents |-> agents, i |-> i,
     arg |-> arg]
NoCall == Frame("none", 0, "idle", NoContext, <<>>, 0, "")
\* the call has raised ValueError / the call on id has returned its context
\* (the returned context is the one just saved)
RaisedFrame == Frame("any", 0, "raised", NoContext, <<>>, 0, "ValueError")
ReturnedFrame(kind, id) == Frame(kind, id, "returned", NoContext, <<>>, 0, "")
\* caller p is not inside a call
Free(p) == calls[p].pc \in {"idle", "returned", "raised"}
At(p, kind, pc) == calls[p].kind = kind /\ calls[p].pc = pc

ParWorkflowNames == {"draft_first", "research", "weekly"}
\* agent.run(context) with the answers of the model service tried here
ParAgentRun(a, data) == {o \in AgentRun(a, data) : ~o.raised /\ o.result.output.text # ""}

InitPar ==
    /\ store = EmptyMap
    /\ mem = EmptyMap
    /\ pendingDir = EmptyMap
    /\ approvedDir = EmptyMap
    /\ outDir = EmptyMap
    /\ today = 0
    /\ nextId = 1
    /\ reuses = 0
    /\ op = Idle
    /\ last = Call("none", 0, "none", "")
    /\ executed = [id \in Ids |-> <<>>]
    /\ clock = 0
    /\ calls = [p \in Callers |-> NoCall]

\* run_workflow lines 69-86
PRunWorkflow(p, workflow_name) ==
    /\ Free(p)
    /\ IF workflow_name \notin DOMAIN Workflows
       THEN /\ calls' = [calls EXCEPT ![p] = RaisedFrame]
            /\ UNCHANGED <<nextId, clock>>
       ELSE /\ nextId <= MaxParRuns
            /\ calls' = [calls EXCEPT ![p] =
                  Frame("run_workflow", nextId, "loop",
                        [WorkflowContext(nextId, workflow_name, clock)
                            EXCEPT !.status = RUNNING],
                        FilterAgents(Workflows[workflow_name], TRUE), 1, "")]
            /\ nextId' = nextId + 1
            /\ clock' = clock + 1
    /\ UNCHANGED <<store, mem, pendingDir, approvedDir, outDir, today, reuses, op, last,
                   executed>>

\* run_workflow lines 90-91
PCheckpoint(p) ==
    /\ At(p, "run_workflow", "loop") /\ calls[p].i <= Len(calls[p].agents)
    /\ LET ctx == [calls[p].ctx EXCEPT !.current_agent = calls[p].agents[calls[p].i]]
       IN  /\ store' = save(store, ctx)
           /\ calls' = [calls EXCEPT ![p].ctx = ctx, ![p].pc = "run"]
    /\ UNCHANGED <<mem, pendingDir, approvedDir, outDir, today, nextId, reuses, op, last,
                   executed, clock>>

\* run_workflow lines 94-101
PRunAgent(p) ==
    /\ At(p, "run_workflow", "run")
    /\ \E o \in ParAgentRun(calls[p].agents[calls[p].i], calls[p].ctx.data) :
         LET ctx == add_result([calls[p].ctx EXCEPT !.data = o.data], o.result, clock)
             failed == [ctx EXCEPT !.status = FAILED, !.error = o.result.error]
         IN  /\ IF not_success(o.result)
                THEN /\ store' = save(store, failed)
                     /\ calls' = [calls EXCEPT ![p] = ReturnedFrame(calls[p].kind, calls[p].id)]
                ELSE /\ calls' = [calls EXCEPT ![p].ctx = ctx, ![p].pc = "handoff"]
                     /\ UNCHANGED store
    /\ clock' = clock + 1
    /\ UNCHANGED <<mem, pendingDir, approvedDir, outDir, today, nextId, reuses, op, last,
                   executed>>

\* run_workflow lines 104-122
PHandOff(p) ==
    /\ At(p, "run_workflow", "handoff")
    /\ LET a == calls[p].agents[calls[p].i]
           result == calls[p].ctx.agent_results[Len(calls[p].ctx.agent_results)]
           content == IF a = Report THEN result.output
                      ELSE DictGet(result.output, "analysis")
           ctx == set_pending_approval(calls[p].ctx,
                     ApprovalRequest(a, result.output, "tweet_draft",
                                     "Please review the tweet draft before publishing."),
                     clock)
       IN  /\ outDir' = IF a \in {Report, DeepAnalysis}
                         THEN Put(outDir, <<a, today>>, content.text) ELSE outDir
           /\ IF requires_approval(a)
              THEN /\ pendingDir' = save_pending_draft(pendingDir,
                                        DictGet(result.output, "draft"), calls[p].id, today)
                   /\ store' = save(store, ctx)
                   /\ calls' = [calls EXCEPT ![p] = ReturnedFrame(calls[p].kind, calls[p].id)]
                   /\ clock' = clock + 1
              ELSE /\ calls' = [calls EXCEPT ![p].pc = "loop", ![p].i = calls[p].i + 1]
                   /\ UNCHANGED <<pendingDir, store, clock>>
    /\ UNCHANGED <<mem, approvedDir, today, nextId, reuses, op, last, executed>>

\* run_workflow lines 125-128
PFinish(p) ==
    /\ At(p, "run_workflow", "loop") /\ calls[p].i > Len(calls[p].agents)
    /\ LET ctx == [calls[p].ctx EXCEPT !.status = COMPLETED, !.current_agent = NoAgent]
       IN  /\ store' = save(store, ctx)
           /\ calls' = [calls EXCEPT ![p] = ReturnedFrame(calls[p].kind, calls[p].id)]
    /\ UNCHANGED <<mem, pendingDir, approvedDir, outDir, today, nextId, reuses, op, last,
                   executed, clock>>

\* approve lines 185-193: the load and the checks on the loaded context
PApprove(p, workflow_id) ==
    /\ Free(p)
    /\ calls' = [calls EXCEPT ![p] =
          IF \/ ~Persisted(store, workflow_id)
             \/ load(store, workflow_id).status # WAITING_APPROVAL
             \/ load(store, workflow_id).pending_approval = NoApproval
          THEN RaisedFrame
          ELSE Frame("approve", workflow_id, "draft", load(store, workflow_id), <<>>, 0, "")]
    /\ UNCHANGED <<store, mem, pendingDir, approvedDir, outDir, today, nextId, reuses, op,
                   last, executed, clock>>

\* approve lines 196-201
PApproveDraft(p) ==
    /\ At(p, "approve", "draft")
    /\ LET draft_content == load_pending_draft(pendingDir, calls[p].id, today)
       IN  IF Truthy(draft_content)
           THEN /\ approvedDir' = save_approved_draft(approvedDir, draft_content,
                                                      calls[p].id, today)
                /\ pendingDir' = delete_pending_draft(pendingDir, calls[p].id, today)
           ELSE UNCHANGED <<approvedDir, pendingDir>>
    /\ calls' = [calls EXCEPT ![p].pc = "save"]
    /\ UNCHANGED <<store, mem, outDir, today, nextId, reuses, op, last, executed, clock>>

\* the save is made only if the persisted status is still waiting_approval
PApproveSave_locked(p) ==
    /\ At(p, "approve", "save")
    /\ LET ctx == [clear_approval(calls[p].ctx, clock) EXCEPT !.status = COMPLETED]
       IN  IF store[calls[p].id].status = "waiting_approval"
           THEN /\ store' = save(store, ctx)
                /\ calls' = [calls EXCEPT ![p] = ReturnedFrame(calls[p].kind, calls[p].id)]
           ELSE /\ calls' = [calls EXCEPT ![p] = RaisedFrame]
                /\ UNCHANGED store
    /\ clock' = clock + 1
    /\ UNCHANGED <<mem, pendingDir, approvedDir, outDir, today, nextId, reuses, op, last,
                   executed>>

\* approve lines 204-208
PApproveSave(p) ==
    /\ At(p, "approve", "save")
    /\ LET ctx == [clear_approval(calls[p].ctx, clock) EXCEPT !.status = COMPLETED]
       IN  /\ store' = save(store, ctx)
           /\ calls' = [calls EXCEPT ![p] = ReturnedFrame(calls[p].kind, calls[p].id)]
    /\ clock' = clock + 1
    /\ UNCHANGED <<mem, pendingDir, approvedDir, outDir, today, nextId, reuses, op, last,
                   executed>>

\* reject lines 223-228: the load and the check on the loaded context
PReject(p, workflow_id, reason) ==
    /\ Free(p)
    /\ calls' = [calls EXCEPT ![p] =
          IF \/ ~Persisted(store, workflow_id)
             \/ load(store, workflow_id).status # WAITING_APPROVAL
          THEN RaisedFrame
          ELSE Frame("reject", workflow_id, "draft", load(store, workflow_id), <<>>, 0,
                     reason)]
    /\ UNCHANGED <<store, mem, pendingDir, approvedDir, outDir, today, nextId, reuses, op,
                   last, executed, clock>>

\* reject line 231
PRejectDraft(p) ==
    /\ At(p, "reject", "draft")
    /\ pendingDir' = delete_pending_draft(pendingDir, calls[p].id, today)
    /\ calls' = [calls EXCEPT ![p].pc = "save"]
    /\ UNCHANGED <<store, mem, approvedDir, outDir, today, nextId, reuses, op, last,
                   executed, clock>>

\* reject lines 234-239
PRejectSave(p) ==
    /\ At(p, "reject", "save")
    /\ LET reason == calls[p].arg
           ctx == [clear_approval(calls[p].ctx, clock) EXCEPT
                      !.status = REJECTED,
                      !.error = IF Truthy(TextVal(reason)) THEN reason ELSE ErrRejected]
       IN  /\ store' = save(store, ctx)
           /\ calls' = [calls EXCEPT ![p] = ReturnedFrame(calls[p].kind, calls[p].id)]
    /\ clock' = clock + 1
    /\ UNCHANGED <<mem, pendingDir, approvedDir, outDir, today, nextId, reuses, op, last,
                   executed>>

NextPar ==
    \/ \E p \in Callers, n \in ParWorkflowNames : PRunWorkflow(p, n)
    \/ \E p \in Callers : PCheckpoint(p)
    \/ \E p \in Callers : PRunAgent(p)
    \/ \E p \in Callers : PHandOff(p)
    \/ \E p \in Callers : PFinish(p)
    \/ \E p \in Callers, id \in ParIds : PApprove(p, id)
    \/ \E p \in Callers : PApproveDraft(p)
    \/ \E p \in Callers : PApproveSave(p)
    \/ \E p \in Callers, id \in ParIds : PReject(p, id, "bad tone")
    \/ \E p \in Callers : PRejectDraft(p)
    \/ \E p \in Callers : PRejectSave(p)
    \/ ListWorkflows

SpecPar == InitPar /\ [][NextPar]_vars


(* ------------------- an agent's run in its environment ---------------- *)
\* what the model service answers to successive generate_content calls
ServiceAnswers == {"txt", "503 UNAVAILABLE", "400 INVALID_ARGUMENT"}
\* the number of answers of a script
MaxScript == 2
ModelScripts == [1..MaxScript -> ServiceAnswers]
\* how a file write, an e-mail or a deletion ends
Done == {"ok", "OSError"}
\* the environment of one run: what the collectors find, what the model
\* service answers, and how each auxiliary write ends
Environments ==
    [collect : {"data", "nothing", "error"}, script : ModelScripts,
     save_raw : Done, save_summary : Done, save_analysis : Done,
     send_email : Done, cleanup : Done]
\* the same environment with every auxiliary write succeeding
WritesSucceed(env) ==
    [env EXCEPT !.save_raw = "ok", !.save_summary = "ok", !.save_analysis = "ok",
                !.send_email = "ok", !.cleanup = "ok"]
\* context.data at the start of the run: empty, or seeded with a report
AgentData == {EmptyMap, Put(EmptyMap, Report, Str("txt"))}
\* the agents run in an environment
EnvAgents == {Report, Social, Monitor, FundFlow, Onchain}

\* the outcome of a run and the number of generate_content calls it made
Ran(o, n) == [outcome |-> o, model_calls |-> n]

\* the error texts a wrapped call can raise with, and which of the texts
\* that is_retryable looks for each of them contains (lower-cased for
\* "overloaded")
ErrorTexts == {"429 RESOURCE_EXHAUSTED", "503 UNAVAILABLE", "500 INTERNAL",
               "The model is Overloaded", "400 INVALID_ARGUMENT"}
Contains(error_str) ==
    CASE error_str = "429 RESOURCE_EXHAUSTED" -> {"429", "RESOURCE_EXHAUSTED"}
      [] error_str = "503 UNAVAILABLE" -> {"503", "UNAVAILABLE"}
      [] error_str = "500 INTERNAL" -> {"500"}
      [] error_str = "The model is Overloaded" -> {"overloaded"}
      [] OTHER -> {}
\* retryable_errors of retry_with_backoff
RetryableErrors == {"429", "503", "500"}
\* lines 50-56: any(... for code in retryable_errors)
is_retryable(error_str, retryable_errors) ==
    \E code \in retryable_errors :
        \/ code \in Contains(error_str)
        \/ "RESOURCE_EXHAUSTED" \in Contains(error_str)
        \/ "UNAVAILABLE" \in Contains(error_str)
        \/ "overloaded" \in Contains(error_str)

\* MAX_RETRIES of RateLimitConfig, the retry budget of GeminiClient.generate
MAX_RETRIES == 3

\* BaseAgent.run: get_prompt, then one self.client.models.generate_content
\* call (lines 62-66), the exception of either becoming a failed result
BaseAgent_run_in(a, data, env) ==
    IF get_prompt(a, data) # NoError
    THEN Ran(Returned(Fail(a, get_prompt(a, data)), data), 0)
    ELSE IF env.script[1] = "txt"
    THEN Ran(Returned(Ok(a, process_response(a, "txt", data)), data), 1)
    ELSE Ran(Returned(Fail(a, env.script[1]), data), 1)

\* ReportAgent.run: BaseAgent.run, then the e-mail inside its own try block
\* (lines 55-60: the exception of send_market_report is printed)
ReportAgent_run_in(data, env) ==
    LET ran == BaseAgent_run_in(Report, data, env)
        result == ran.outcome.result
        sends == result.success /\ Truthy(result.output)
    IN  IF sends /\ env.send_email # "ok" THEN ran ELSE ran

\* MonitorAgent.run / FundFlowAgent.run: one try block around collect_all
\* (which saves the raw data of each collector that found some), the model
\* call and _save_analysis; _cleanup_old_files swallows its exceptions
Collecting_run_in(a, key, data, env) ==
    LET collected == Put(data, key, Dict("collected", "posts", ""))
    IN  IF env.collect # "data"
        THEN Ran(Returned(Ok(a, Dict("message", "nothing collected", "")), data), 0)
        ELSE IF env.save_raw # "ok"
        THEN Ran(Returned(Fail(a, env.save_raw), data), 0)
        ELSE IF env.script[1] # "txt"
        THEN Ran(Returned(Fail(a, env.script[1]), collected), 1)
        ELSE IF env.save_analysis # "ok"
        THEN Ran(Returned(Fail(a, env.save_analysis), collected), 1)
        ELSE Ran(Returned(Ok(a, Dict("analysis", "txt", "filepath")), collected), 1)

\* OnchainAgent.run(context, quick=False): save_data, _save_onchain_summary
\* and _save_analysis are called outside any try block; _generate_analysis
\* turns a model error into the text of the analysis
OnchainAgent_run_in(data, env) ==
    LET analysis == IF env.script[1] = "txt" THEN Str("txt")
                    ELSE Str("Error generating analysis")
        error == IF env.collect = "error" THEN ErrCollect ELSE NoError
    IN  IF env.save_raw # "ok" \/ env.save_summary # "ok"
        THEN Ran(Raised(data), 0)
        ELSE IF env.save_analysis # "ok"
        THEN Ran(Raised(data), 1)
        ELSE Ran(Returned(AgentResult(Onchain, TRUE, analysis, error), data), 1)

AgentRun_in(a, data, env) ==
    CASE a = Report -> ReportAgent_run_in(data, env)
      [] a = Monitor -> Collecting_run_in(a, "collected_posts", data, env)
      [] a = FundFlow -> Collecting_run_in(a, "fund_flow_data", data, env)
      [] a = Onchain -> OnchainAgent_run_in(data, env)
      [] OTHER -> BaseAgent_run_in(a, data, env)

\* an agent is constructed, to be run on a context holding data in the
\* environment env
InitAgent ==
    /\ store = EmptyMap
    /\ mem = EmptyMap
    /\ pendingDir = EmptyMap
    /\ approvedDir = EmptyMap
    /\ outDir = EmptyMap
    /\ today = 0
    /\ nextId = 1
    /\ reuses = 0
    /\ \E a \in EnvAgents, data \in AgentData, env \in Environments :
          op = [kind |-> "agent_run", agent |-> a, data |-> data, env |-> env]
    /\ last = Call("none", 0, "none", "")
    /\ executed = [id \in Ids |-> <<>>]
    /\ clock = 0
    /\ calls = EmptyMap

\* agent.run(context)
AgentCall ==
    /\ op.kind = "agent_run"
    /\ op' = Idle
    /\ last' = [kind |-> "agent_run", agent |-> op.agent, data |-> op.data,
                env |-> op.env, ran |-> AgentRun_in(op.agent, op.data, op.env)]
    /\ UNCHANGED <<store, mem, pendingDir, approvedDir, outDir, today, nextId, reuses,
                   executed, clock, calls>>

NextAgent == AgentCall

SpecAgent == InitAgent /\ [][NextAgent]_vars


(* -------------------------- retry_with_backoff ------------------------ *)
\* the largest max_retries a decorated function is given
MaxRetryBudget == 2
\* what the wrapped function does at one invocation: return, or raise with
\* one of the error texts
FuncOutcomes == {"ok", "429 RESOURCE_EXHAUSTED", "The model is Overloaded",
                 "400 INVALID_ARGUMENT"}
\* what the wrapped function does at its successive invocations
FuncScripts(max_retries) == [1..(max_retries + 1) -> FuncOutcomes]

RetryEnd(outcome, value) ==
    [kind |-> "retry", outcome |-> outcome, value |-> value,
     max_retries |-> op.max_retries, script |-> op.script,
     invocations |-> op.invocations + 1]

\* wrapper(*args, **kwargs) is called: line 40
RetryCall(max_retries, script) ==
    /\ op = Idle
    /\ op' = [kind |-> "retry", max_retries |-> max_retries, attempt |-> 0,
              script |-> script, invocations |-> 0]
    /\ last' = [kind |-> "retry", outcome |-> "running", value |-> "",
                max_retries |-> max_retries, script |-> script, invocations |-> 0]
    /\ UNCHANGED <<store, mem, pendingDir, approvedDir, outDir, today, nextId, reuses,
                   executed, clock, calls>>

\* an iteration that goes on to the next attempt after any error
RetryAttempt_retries_all ==
    /\ op.kind = "retry" /\ op.attempt <= op.max_retries
    /\ LET r == op.script[op.attempt + 1]
       IN  IF r = "ok"
           THEN /\ op' = Idle
                /\ last' = RetryEnd("returned", r)
           ELSE IF op.attempt = op.max_retries
           THEN /\ op' = Idle
                /\ last' = RetryEnd("raised", r)
           ELSE /\ op' = [op EXCEPT !.attempt = @ + 1, !.invocations = @ + 1]
                /\ UNCHANGED last
    /\ UNCHANGED <<store, mem, pendingDir, approvedDir, outDir, today, nextId, reuses,
                   executed, clock, calls>>

\* lines 42-71: one iteration of the loop: invoke func; return its result,
\* re-raise its exception, or sleep and go on to the next attempt
RetryAttempt ==
    /\ op.kind = "retry" /\ op.attempt <= op.max_retries
    /\ LET r == op.script[op.attempt + 1]
       IN  IF r = "ok"
           THEN /\ op' = Idle
                /\ last' = RetryEnd("returned", r)
           ELSE IF ~is_retryable(r, RetryableErrors) \/ op.attempt = op.max_retries
           THEN /\ op' = Idle
                /\ last' = RetryEnd("raised", r)
           ELSE /\ op' = [op EXCEPT !.attempt = @ + 1, !.invocations = @ + 1]
                /\ UNCHANGED last
    /\ UNCHANGED <<store, mem, pendingDir, approvedDir, outDir, today, nextId, reuses,
                   executed, clock, calls>>

NextRetry ==
    \/ \E n \in 0..MaxRetryBudget : \E script \in FuncScripts(n) : RetryCall(n, script)
    \/ RetryAttempt

SpecRetry == Init /\ [][NextRetry]_vars

(* ------------------------------ claims -------------------------------- *)
WAITING == StatusValue(WAITING_APPROVAL)
Ended(kind) == last.kind = kind /\ last.outcome = "returned"
EndedNext(kind) == last'.kind = kind /\ last'.outcome = "returned" /\ last' # last

\* C1: in every persisted snapshot pending_approval is non-null exactly when
\* the status is waiting_approval.
C1_PendingIffWaiting ==
    \A id \in DOMAIN store :
        (store[id].pending_approval # NoApproval) <=> (store[id].status = WAITING)

\* C2: every change of the persisted status of a context is one of the
\* transitions of the state machine; a completed, failed or rejected status
\* never changes again.
AllowedTransitions ==
    {<<"pending", "running">>, <<"running", "waiting_approval">>,
     <<"running", "failed">>, <<"running", "completed">>,
     <<"waiting_approval", "completed">>, <<"waiting_approval", "rejected">>}
C2_StatusTransitions ==
    [][\A id \in (DOMAIN store) \cap (DOMAIN store') :
          store'[id].status # store[id].status
             => <<store[id].status, store'[id].status>> \in AllowedTransitions]_vars

\* C3: no agent of a run_workflow call runs after an unsuccessful result: while
\* the call runs every recorded result is successful, and when it returns the
\* k recorded results are those of the first k agents of the list, in order,
\* the status being failed exactly when the k-th one is unsuccessful.
AgentLists(name) == {FilterAgents(Workflows[name], skip) : skip \in BOOLEAN}
NamesOf(results) == [j \in 1..Len(results) |-> results[j].agent_name]
C3_FailFast ==
    /\ op.kind = "run_workflow" =>
          /\ \A j \in 1..Len(mem[op.id].agent_results) : mem[op.id].agent_results[j].success
          /\ executed[op.id] = SubSeq(op.agents, 1, Len(executed[op.id]))
    /\ Ended("run_workflow") =>
          LET doc == store[last.id]
              k == Len(doc.agent_results)
          IN  /\ k = Len(executed[last.id])
              /\ NamesOf(doc.agent_results) = executed[last.id]
              /\ \E agents \in AgentLists(doc.workflow_name) :
                    k <= Len(agents) /\ executed[last.id] = SubSeq(agents, 1, k)
              /\ \A j \in 1..(k - 1) : doc.agent_results[j].success
              /\ (doc.status = "failed") <=> (k > 0 /\ ~doc.agent_results[k].success)
C3_Witness ==
    /\ Ended("run_workflow")
    /\ store[last.id].status = "failed"
    /\ store[last.id].workflow_name = "daily"
    /\ Len(store[last.id].agent_results) = 3
    /\ Len(executed[last.id]) = 3

\* C4: when run_workflow ends failed at agent k, data holds an entry for each
\* of the agents 1..k-1 and none for the failed agent k.
C4_DataOnlyOnSuccess ==
    Ended("run_workflow") /\ store[last.id].status = "failed" =>
        LET doc == store[last.id]
            k == Len(doc.agent_results)
        IN  DOMAIN doc.data = {doc.agent_results[j].agent_name : j \in 1..(k - 1)}

\* C5: a successful agent that requires approval ends run_workflow in
\* waiting_approval, named by the pending approval, as the last agent run; a
\* waiting run becomes completed only by approve(id); approve and reject run
\* no agent and leave data and agent_results as they were.
C5_ApprovalGate ==
    [][/\ EndedNext("run_workflow") =>
            LET doc == store'[last'.id]
                k == Len(doc.agent_results)
            IN  \A j \in 1..k :
                   requires_approval(doc.agent_results[j].agent_name)
                   /\ doc.agent_results[j].success
                   => /\ j = k
                      /\ doc.status = WAITING
                      /\ doc.pending_approval.agent_name = doc.agent_results[j].agent_name
       /\ \A id \in (DOMAIN store) \cap (DOMAIN store') :
             store[id].status = WAITING /\ store'[id].status = "completed"
             => last' = Call("approve", id, "returned", "")
       /\ last'.kind \in {"approve", "reject"} /\ last' # last =>
             /\ executed' = executed
             /\ \A id \in DOMAIN store :
                   /\ store'[id].data = store[id].data
                   /\ store'[id].agent_results = store[id].agent_results]_vars

\* C6: a successful approve(id) leaves an approved draft of id holding the
\* draft submitted for approval, no pending draft of id, and the persisted
\* status completed with the pending approval cleared, whatever the date.
C6_ApprovePromotesDraft ==
    [][\A id \in Ids :
          last' = Call("approve", id, "returned", "") /\ last' # last =>
             /\ \E d \in Days :
                   /\ DraftFile(id, d) \in DOMAIN approvedDir'
                   /\ Str(approvedDir'[DraftFile(id, d)])
                        = DictGet(store[id].pending_approval.content, "draft")
             /\ \A d \in Days : DraftFile(id, d) \notin DOMAIN pendingDir'
             /\ store'[id].status = "completed"
             /\ store'[id].pending_approval = NoApproval]_vars

C8_CallerErrorNoEffect ==
    [][last' = CallerError /\ last # CallerError =>
          /\ store' = store
          /\ pendingDir' = pendingDir
          /\ approvedDir' = approvedDir
          /\ outDir' = outDir
          /\ executed' = executed]_vars
C8_Witness ==
    /\ last = CallerError
    /\ \E id \in DOMAIN store : store[id].status = "completed"
    /\ pendingDir # EmptyMap

\* C9: no run_workflow or run_single_agent call ends with an exception that
\* an agent's run raised, and a run whose model call failed is recorded as
\* unsuccessful.
C9_AgentFailuresContained ==
    /\ ~(last.outcome = "raised" /\ last.arg = "agent")
    /\ \A id \in DOMAIN store : \A j \in 1..Len(store[id].agent_results) :
          store[id].agent_results[j].output = Str("Error generating analysis")
          => ~store[id].agent_results[j].success

\* C10: when a run_workflow call has ended, by return or by an exception, the
\* persisted status of its run is waiting_approval, completed or failed.
C10_NeverLeftRunning ==
    last.kind = "run_workflow" /\ last.outcome \in {"returned", "raised"} =>
        /\ last.id \in DOMAIN store
        /\ store[last.id].status \in {"waiting_approval", "completed", "failed"}

\* C11: when run_workflow, run_single_agent, approve or reject has returned a
\* context, the persisted document of its id is the serialization of the
\* returned context, and get_status of that id gives a context equal to it in
\* every field.
Returning == {"run_workflow", "run_single_agent", "approve", "reject"}
C11_ReturnedIsPersisted ==
    last.kind \in Returning /\ last.outcome = "returned" =>
        /\ Persisted(store, last.id)
        /\ store[last.id] = to_dict(mem[last.id])
        /\ get_status(store, last.id) = mem[last.id]
C11_Witness ==
    /\ Ended("run_single_agent")
    /\ mem[last.id].status = FAILED
    /\ mem[last.id].error = ErrModel
    /\ store[last.id].error = ErrModel

\* C12: when run_single_agent returns after a successful run of an agent that
\* requires approval, the persisted status is waiting_approval and the pending
\* approval names that agent.
C12_SingleAgentSuspends ==
    Ended("run_single_agent") =>
        LET doc == store[last.id]
            r == doc.agent_results[Len(doc.agent_results)]
        IN  requires_approval(r.agent_name) /\ r.success =>
               /\ doc.status = WAITING
               /\ doc.pending_approval.agent_name = r.agent_name

\* C13: set_pending_approval on a context that is waiting for approval with
\* a pending request leaves that pending request as it was (a different
\* request is refused).
C13_OneOutstandingApproval ==
    [][/\ last'.kind = "set_pending_approval"
       /\ clock' # clock
       /\ mem[1].status = WAITING_APPROVAL
       /\ mem[1].pending_approval # NoApproval
       => mem'[1].pending_approval = mem[1].pending_approval]_vars

\* C14: when the agent run last by an ended run_workflow or run_single_agent
\* call is deep_analysis_agent or social_agent and data has no report_agent
\* entry, the only outcome of its run is the failed result of the missing
\* report (none that a model call produces), the persisted status is failed
\* with that error, and data has no entry of the agent.
C14_MissingReportFails ==
    (Ended("run_workflow") \/ Ended("run_single_agent")) /\ executed[last.id] # <<>> =>
        LET doc == store[last.id]
            a == executed[last.id][Len(executed[last.id])]
            r == doc.agent_results[Len(doc.agent_results)]
        IN  a \in {DeepAnalysis, Social} /\ Report \notin DOMAIN doc.data =>
               /\ AgentRun(a, doc.data) = {Returned(Fail(a, ErrNoReport), doc.data)}
               /\ r = Fail(a, ErrNoReport)
               /\ doc.status = "failed"
               /\ doc.error = ErrNoReport
               /\ a \notin DOMAIN doc.data
C14_Witness ==
    /\ Ended("run_single_agent")
    /\ executed[last.id] = <<Social>>
    /\ store[last.id].data = EmptyMap
    /\ store[last.id].error = ErrNoReport

\* C15: in every persisted document whose status is failed, the last entry of
\* agent_results is unsuccessful, no other entry is, and error is the error
\* of that entry and is not null.
C15_FailedHasOneFailure ==
    \A id \in DOMAIN store :
        store[id].status = "failed" =>
            LET rs == store[id].agent_results
                k == Len(rs)
            IN  /\ k > 0
                /\ ~rs[k].success
                /\ \A j \in 1..(k - 1) : rs[j].success
                /\ store[id].error = rs[k].error
                /\ store[id].error # NoError

\* C16: get_status and list_workflows change no persisted document and no
\* draft; get_status reports not found exactly for an id that has no document,
\* and otherwise returns a context whose serialization is the document, the
\* same one when it is called again.
C16_ReadsArePure ==
    [][last'.kind \in {"get_status", "list_workflows"} /\ last' # last =>
          /\ store' = store
          /\ pendingDir' = pendingDir
          /\ approvedDir' = approvedDir
          /\ outDir' = outDir
          /\ mem' = mem
          /\ last'.kind = "get_status" =>
                /\ (last'.outcome = "not found") <=> ~Persisted(store, last'.id)
                /\ Persisted(store, last'.id) =>
                      /\ to_dict(get_status(store, last'.id)) = store[last'.id]
                      /\ get_status(store', last'.id) = get_status(store, last'.id)
          /\ last'.kind = "list_workflows" =>
                /\ list_workflows(store') = list_workflows(store)
                /\ \A l \in list_workflows(store) :
                      {l[i] : i \in DOMAIN l} = {store[id] : id \in DOMAIN store}]_vars
C16_Witness ==
    /\ last = Call("get_status", 1, "returned", "")
    /\ store[1].status = WAITING
    /\ store[1].pending_approval # NoApproval

RunsInProgress == {p \in Callers : calls[p].kind = "run_workflow" /\ ~Free(p)}
C18_ListNewestFirst ==
    RunsInProgress = {} =>
        /\ Cardinality(list_workflows(store)) = 1
        /\ \A l \in list_workflows(store) :
              /\ Len(l) = nextId - 1
              /\ {l[i].workflow_id : i \in DOMAIN l} = 1..(nextId - 1)
              /\ \A i, j \in DOMAIN l :
                    i < j => /\ l[i].workflow_id # l[j].workflow_id
                             /\ l[i].created_at > l[j].created_at
                             /\ l[i].workflow_id > l[j].workflow_id
C18_Witness ==
    /\ RunsInProgress = {}
    /\ last.kind = "list_workflows"
    /\ \E l \in list_workflows(store) :
          /\ Len(l) = 2
          /\ l[1].workflow_id = 2 /\ l[2].workflow_id = 1
          /\ l[1].workflow_name = l[2].workflow_name

\* C19: no lock serializes the calls on one id: an approve or reject call that
\* passed the waiting_approval check at its load returns successfully whatever
\* the persisted status has become since, and its save leaves its own status
\* persisted (the last save wins).
C19_LastSaveWins ==
    [][\A p \in Callers :
          calls[p].kind \in {"approve", "reject"} /\ calls[p].pc = "save"
          /\ calls'[p] # calls[p] =>
             /\ calls'[p] = ReturnedFrame(calls[p].kind, calls[p].id)
             /\ store'[calls[p].id].status =
                   (IF calls[p].kind = "approve" THEN "completed" ELSE "rejected")
             /\ store'[calls[p].id].pending_approval = NoApproval]_vars
\* approve(id) and reject(id) have both returned successfully; reject saved
\* last, after approve had published the draft
C19_Witness ==
    \E p, q \in Callers : \E id \in ParIds :
        /\ p # q
        /\ calls[p] = ReturnedFrame("approve", id)
        /\ calls[q] = ReturnedFrame("reject", id)
        /\ store[id].status = "rejected"
        /\ DraftFile(id, today) \in DOMAIN approvedDir

\* C20: a step of a call (a run step, a step of approve or of reject) on one
\* id leaves the persisted document of every other id as it was.
C20_OtherIdsUntouched ==
    [][\A p \in Callers :
          calls'[p] # calls[p] =>
             \A b \in DOMAIN store :
                b # calls'[p].id => b \in DOMAIN store' /\ store'[b] = store[b]]_vars
C20_Witness ==
    \E p, q \in Callers :
        /\ At(p, "run_workflow", "handoff") /\ calls[p].id = 2
        /\ At(q, "reject", "save") /\ calls[q].id = 1
        /\ store[1].status = WAITING
        /\ store[2].status = "running"

\* C23: in run_workflow the agents run one at a time in the order of the
\* filtered list, each at most once: every step starts at most one agent, the
\* next one of the list; and the call returns completed only when the recorded
\* results are those of the whole list, in order, all successful.
Started(i, pc) == IF pc \in {"handoff", "approval"} THEN i ELSE i - 1
C23_InOrderOnceCompleted ==
    [][/\ op.kind = "run_workflow" =>
            /\ executed[op.id] = SubSeq(op.agents, 1, Started(op.i, op.pc))
            /\ \A j, k \in 1..Len(executed[op.id]) :
                  j # k => executed[op.id][j] # executed[op.id][k]
            /\ \/ executed'[op.id] = executed[op.id]
               \/ /\ op.pc = "run"
                  /\ executed'[op.id] = Append(executed[op.id], op.agents[op.i])
       /\ EndedNext("run_workflow") /\ store'[last'.id].status = "completed" =>
            LET doc == store'[last'.id]
            IN  /\ op.kind = "run_workflow" /\ op.id = last'.id
                /\ executed'[op.id] = op.agents
                /\ NamesOf(doc.agent_results) = op.agents
                /\ \A j \in 1..Len(doc.agent_results) : doc.agent_results[j].success]_vars
C23_Witness ==
    /\ Ended("run_workflow")
    /\ store[last.id].status = "completed"
    /\ store[last.id].workflow_name = "research"
    /\ executed[last.id] = <<Report, DeepAnalysis>>

\* C24: in run_workflow, when an agent is about to run, the persisted snapshot
\* of the run has status running and current_agent equal to that agent's name.
C24_CheckpointBeforeRun ==
    op.kind = "run_workflow" /\ op.pc = "run" =>
        /\ Persisted(store, op.id)
        /\ store[op.id].status = "running"
        /\ store[op.id].current_agent = op.agents[op.i]
C24_Witness ==
    /\ op.kind = "run_workflow" /\ op.pc = "run" /\ op.i = 2
    /\ store[op.id].current_agent = op.agents[2]
    /\ Len(store[op.id].agent_results) = 1

\* C25: wherever run_workflow is interrupted (while it runs, or when it ends
\* with an exception), the persisted snapshot holds the recorded results of
\* all agents started before the one started last, as recorded: only the
\* result of the step in flight can be missing.
IsPrefix(s, t) == Len(s) <= Len(t) /\ s = SubSeq(t, 1, Len(s))
C26_CurrentAgentOnlyRunning ==
    \A id \in DOMAIN store :
        store[id].status \in {"waiting_approval", "completed", "failed", "rejected"}
        => store[id].current_agent = NoAgent

\* C27: in every persisted snapshot error is non-null only if the status is
\* failed or rejected.
C27_ErrorOnlyFailedRejected ==
    \A id \in DOMAIN store :
        store[id].error # NoError => store[id].status \in {"failed", "rejected"}

\* C28: from one persisted snapshot of an id to the next, agent_results only
\* grows at its end and data keeps every key with the value it had.
C28_ContextOnlyGrows ==
    [][\A id \in (DOMAIN store) \cap (DOMAIN store') :
          /\ IsPrefix(store[id].agent_results, store'[id].agent_results)
          /\ \A k \in DOMAIN store[id].data :
                /\ k \in DOMAIN store'[id].data
                /\ store'[id].data[k] = store[id].data[k]]_vars

\* C30: whenever the persisted status of a run is waiting_approval, loading
\* the pending draft of its id gives the draft text of
\* pending_approval.content (so the draft was written before that snapshot).
C30_PendingDraftConsistent ==
    \A id \in DOMAIN store :
        store[id].status = WAITING =>
            load_pending_draft(pendingDir, id, today)
               = DictGet(store[id].pending_approval.content, "draft")

\* C21: a failure of an auxiliary write during an agent's run (the analysis
\* or summary file, the raw collected data, the report e-mail, the deletion
\* of old files) neither raises out of the run nor changes the success flag:
\* the run returns, with the flag it has when every such write succeeds.
C21_AuxWritesNeverFail ==
    last.kind = "agent_run" =>
        LET outcome == last.ran.outcome
            reference == AgentRun_in(last.agent, last.data, WritesSucceed(last.env)).outcome
        IN  /\ ~outcome.raised
            /\ outcome.result.success = reference.result.success

\* C22: a transient model-service error during an agent's run is retried
\* inside the run: a failed result carrying a transient error is returned only
\* after MAX_RETRIES + 1 calls of the model service.
C22_TransientErrorRetried ==
    last.kind = "agent_run" /\ ~last.ran.outcome.raised =>
        LET result == last.ran.outcome.result
        IN  ~result.success /\ is_retryable(result.error, RetryableErrors)
            => last.ran.model_calls = MAX_RETRIES + 1

\* C29: a call wrapped by retry_with_backoff(max_retries=N) invokes the
\* function at most N+1 times; it ends at the first invocation that returns
\* (returning its result), or that raises a non-retryable error (re-raising
\* it), or at invocation N+1 (re-raising its error), every invocation before
\* having raised a retryable error.
C29_RetryBounded ==
    /\ op.kind = "retry" => op.invocations <= op.max_retries
    /\ last.kind = "retry" /\ last.outcome \in {"returned", "raised"} =>
          LET n == last.invocations
              r == last.script[n]
          IN  /\ n >= 1 /\ n <= last.max_retries + 1
              /\ \A j \in 1..(n - 1) :
                    /\ last.script[j] # "ok"
                    /\ is_retryable(last.script[j], RetryableErrors)
              /\ last.value = r
              /\ last.outcome = "returned" <=> r = "ok"
              /\ last.outcome = "raised" =>
                    ~is_retryable(r, RetryableErrors) \/ n = last.max_retries + 1
C29_Witness ==
    /\ last.kind = "retry" /\ last.outcome = "raised"
    /\ last.max_retries = 2 /\ last.invocations = 3
    /\ last.value = "The model is Overloaded"

====
